---- MODULE Spec2Model ----
(***************************************************************************)
(* Model of the BusTub buffer pool manager (buffer_pool_manager.cpp) and   *)
(* its clock replacer (clock_replacer.cpp / clock_replacer.h).             *)
(*                                                                         *)
(* Every public BufferPoolManager operation holds latch_ from its first    *)
(* to its last statement, so each operation is one atomic action.          *)
(*                                                                         *)
(* Spec is the manager alone, SpecCalls adds the history of the most       *)
(* recent call (last, io), SpecBalance adds the observed run of FetchPage  *)
(* and UnpinPage calls on one page (bal).                                  *)
(***************************************************************************)
EXTENDS Integers, Sequences, FiniteSets, TLC

VARIABLES page_table, pages, free_list, replacer, io, last, bal,
          latch, replacer_latch, page_latch, thread, dup

vars == <<page_table, pages, free_list, replacer, io, last, bal,
          latch, replacer_latch, page_latch, thread, dup>>

----------------------------------------------------------------------------
(* Bounds *)

PoolSize == 2

NumPages == 3

MaxPin == 2

ReplacerFrames == 4

NumThreads == 2

----------------------------------------------------------------------------
(* Program constants and domains *)

INVALID_PAGE_ID == -1

NoFrame == -1

DefaultPinCount == 0

End == 0

Dangling == -1

FrameIds == 0 .. (PoolSize - 1)

PageIds == 0 .. (NumPages - 1)

Threads == 1 .. NumThreads

NoThread == 0

----------------------------------------------------------------------------
(* ClockReplacer: frame_list_ is a sequence of FrameState records,         *)
(* clock_hand_ is a position in it (End for frame_list_.end()), and        *)
(* frame_map_ maps a frame id to the position of its list node (End when   *)
(* the frame id has no entry).  Erasing a node shifts the positions of the *)
(* nodes behind it, which keeps every iterator on its own node.            *)

FrameState_BitClear(id) == [frame_id |-> id, reference_bit |-> FALSE]

FrameState(id) == [frame_id |-> id, reference_bit |-> TRUE]

ClockReplacer(num_pages) ==
  [frame_list |-> << >>,
   frame_map  |-> [f \in 0 .. (num_pages - 1) |-> End],
   clock_hand |-> End]

Size(r) == Len(r.frame_list)

NextClockHand(r) ==
  IF r.clock_hand = End
    THEN r
    ELSE LET h == r.clock_hand + 1
         IN  [r EXCEPT !.clock_hand = IF h > Len(r.frame_list) THEN 1 ELSE h]

EraseAt(s, pos) == [i \in 1 .. (Len(s) - 1) |-> IF i < pos THEN s[i] ELSE s[i + 1]]

RemoveFrame_NoEmptyCheck(r, frame_id) ==
  IF r.frame_map[frame_id] = End
    THEN r
    ELSE LET pos   == r.frame_map[frame_id]
             r1    == IF pos = r.clock_hand THEN NextClockHand(r) ELSE r
             list2 == EraseAt(r1.frame_list, pos)
             hand2 == IF r1.clock_hand = pos THEN Dangling
                      ELSE IF r1.clock_hand > pos THEN r1.clock_hand - 1
                      ELSE r1.clock_hand
             map2  == [g \in DOMAIN r1.frame_map |->
                         IF g = frame_id THEN End
                         ELSE IF r1.frame_map[g] > pos THEN r1.frame_map[g] - 1
                         ELSE r1.frame_map[g]]
         IN  [frame_list |-> list2,
              frame_map  |-> map2,
              clock_hand |-> hand2]

RemoveFrame(r, frame_id) ==
  IF r.frame_map[frame_id] = End
    THEN r
    ELSE LET pos   == r.frame_map[frame_id]
             r1    == IF pos = r.clock_hand THEN NextClockHand(r) ELSE r
             list2 == EraseAt(r1.frame_list, pos)
             hand2 == IF r1.clock_hand = pos THEN Dangling
                      ELSE IF r1.clock_hand > pos THEN r1.clock_hand - 1
                      ELSE r1.clock_hand
             map2  == [g \in DOMAIN r1.frame_map |->
                         IF g = frame_id THEN End
                         ELSE IF r1.frame_map[g] > pos THEN r1.frame_map[g] - 1
                         ELSE r1.frame_map[g]]
         IN  [frame_list |-> list2,
              frame_map  |-> map2,
              clock_hand |-> IF Len(list2) = 0 THEN End ELSE hand2]

RECURSIVE Sweep(_)
Sweep(r) ==
  IF r.frame_list[r.clock_hand].reference_bit
    THEN Sweep(NextClockHand(
           [r EXCEPT !.frame_list[r.clock_hand].reference_bit = FALSE]))
    ELSE r

Victim_NoSweep(r, frame_id) ==
  IF r.clock_hand = End
    THEN [r |-> r, ok |-> FALSE, frame_id |-> frame_id]
    ELSE LET f == r.frame_list[r.clock_hand].frame_id
         IN  [r |-> RemoveFrame(r, f), ok |-> TRUE, frame_id |-> f]

Victim(r, frame_id) ==
  IF r.clock_hand = End
    THEN [r |-> r, ok |-> FALSE, frame_id |-> frame_id]
    ELSE LET r1 == Sweep(r)
             f  == r1.frame_list[r1.clock_hand].frame_id
         IN  [r |-> RemoveFrame(r1, f), ok |-> TRUE, frame_id |-> f]

Pin(r, frame_id) == RemoveFrame(r, frame_id)

Unpin_PushFront(r, frame_id) ==
  IF r.frame_map[frame_id] # End
    THEN r
    ELSE LET list2 == <<FrameState(frame_id)>> \o r.frame_list
         IN  [frame_list |-> list2,
              frame_map  |-> [g \in DOMAIN r.frame_map |->
                                IF g = frame_id THEN 1
                                ELSE IF r.frame_map[g] # End
                                       THEN r.frame_map[g] + 1
                                       ELSE End],
              clock_hand |-> IF Len(list2) = 1 THEN 1 ELSE r.clock_hand + 1]

Unpin_RefreshBit(r, frame_id) ==
  IF r.frame_map[frame_id] # End
    THEN [r EXCEPT !.frame_list[r.frame_map[frame_id]].reference_bit = TRUE]
    ELSE LET list2 == Append(r.frame_list, FrameState(frame_id))
         IN  [frame_list |-> list2,
              frame_map  |-> [r.frame_map EXCEPT ![frame_id] = Len(list2)],
              clock_hand |-> IF Len(list2) = 1 THEN 1 ELSE r.clock_hand]

(* The frame_map_ insert is the argument of an assert (clock_replacer.cpp  *)
(* line 72); the model is the build in which assert evaluates it.          *)
Unpin(r, frame_id) ==
  IF r.frame_map[frame_id] # End
    THEN r
    ELSE LET list2 == Append(r.frame_list, FrameState(frame_id))
         IN  [frame_list |-> list2,
              frame_map  |-> [r.frame_map EXCEPT ![frame_id] = Len(list2)],
              clock_hand |-> IF Len(list2) = 1 THEN 1 ELSE r.clock_hand]

Tracked(r, f) == \E i \in 1 .. Len(r.frame_list) : r.frame_list[i].frame_id = f

----------------------------------------------------------------------------
(* BufferPoolManager.  A manager state s is the record of page_table_,     *)
(* pages_, free_list_, replacer_ and the disk manager calls issued by the  *)
(* operation in progress (io).  page_table maps a page id to its frame,    *)
(* NoFrame when the page id has no entry.                                  *)

Page == [page_id |-> INVALID_PAGE_ID, pin_count |-> 0, is_dirty |-> FALSE]

Cur == [page_table |-> page_table, pages |-> pages, free_list |-> free_list,
        replacer |-> replacer, io |-> << >>]

DiskCall(s, call, page_id) == [s EXCEPT !.io = Append(@, <<call, page_id>>)]

ResetPage(s, frame_id, new_page_id, new_pin_count) ==
  [s EXCEPT !.pages[frame_id] = [page_id   |-> new_page_id,
                                 pin_count |-> new_pin_count,
                                 is_dirty  |-> FALSE]]

FlushPageLocked_KeepsDirty(s, page_id) ==
  IF s.page_table[page_id] = NoFrame
    THEN [s |-> s, ret |-> FALSE]
    ELSE IF ~ s.pages[s.page_table[page_id]].is_dirty
           THEN [s |-> s, ret |-> TRUE]
           ELSE [s |-> DiskCall(s, "WritePage", page_id), ret |-> TRUE]

FlushPageLocked(s, page_id) ==
  IF s.page_table[page_id] = NoFrame
    THEN [s |-> s, ret |-> FALSE]
    ELSE LET f == s.page_table[page_id]
         IN  IF ~ s.pages[f].is_dirty
               THEN [s |-> s, ret |-> TRUE]
               ELSE [s   |-> [DiskCall(s, "WritePage", page_id)
                                EXCEPT !.pages[f].is_dirty = FALSE],
                     ret |-> TRUE]

GetNextAvailableFrame(s) ==
  IF s.free_list # << >>
    THEN [s |-> [s EXCEPT !.free_list = Tail(@)],
          frame_id |-> Head(s.free_list), victim |-> NoFrame]
    ELSE LET v == Victim(s.replacer, NoFrame)
         IN  [s |-> [s EXCEPT !.replacer = v.r],
              frame_id |-> v.frame_id,
              victim |-> IF v.ok THEN v.frame_id ELSE NoFrame]

MaybeEvictPageFromFrame_KeepsEntry(s, frame_id) ==
  IF s.pages[frame_id].page_id # INVALID_PAGE_ID
    THEN FlushPageLocked(s, s.pages[frame_id].page_id).s
    ELSE s

MaybeEvictPageFromFrame_EraseFirst(s, frame_id) ==
  IF s.pages[frame_id].page_id # INVALID_PAGE_ID
    THEN LET old == s.pages[frame_id].page_id
             s1  == [s EXCEPT !.page_table[old] = NoFrame]
         IN  FlushPageLocked(s1, old).s
    ELSE s

MaybeEvictPageFromFrame(s, frame_id) ==
  IF s.pages[frame_id].page_id # INVALID_PAGE_ID
    THEN LET old == s.pages[frame_id].page_id
             s1  == FlushPageLocked(s, old).s
         IN  [s1 EXCEPT !.page_table[old] = NoFrame]
    ELSE s

FetchPageImpl_NoPinAfterRead(s, page_id) ==
  IF s.page_table[page_id] # NoFrame
    THEN LET f  == s.page_table[page_id]
             s1 == [s EXCEPT !.pages[f].pin_count = @ + 1]
         IN  [s |-> [s1 EXCEPT !.replacer = Pin(@, f)],
              page |-> f, victim |-> NoFrame]
    ELSE LET g == GetNextAvailableFrame(s)
         IN  IF g.frame_id = NoFrame
               THEN [s |-> g.s, page |-> NoFrame, victim |-> g.victim]
               ELSE LET s1 == MaybeEvictPageFromFrame(g.s, g.frame_id)
                        s2 == [s1 EXCEPT !.page_table[page_id] = g.frame_id]
                        s3 == ResetPage(s2, g.frame_id, page_id, 1)
                    IN  [s |-> DiskCall(s3, "ReadPage", page_id),
                         page |-> g.frame_id, victim |-> g.victim]

FetchPageImpl_HitNoPin(s, page_id) ==
  IF s.page_table[page_id] # NoFrame
    THEN LET f == s.page_table[page_id]
         IN  [s |-> [s EXCEPT !.replacer = Pin(@, f)],
              page |-> f, victim |-> NoFrame]
    ELSE LET g == GetNextAvailableFrame(s)
         IN  IF g.frame_id = NoFrame
               THEN [s |-> g.s, page |-> NoFrame, victim |-> g.victim]
               ELSE LET s1 == MaybeEvictPageFromFrame(g.s, g.frame_id)
                        s2 == [s1 EXCEPT !.page_table[page_id] = g.frame_id]
                        s3 == ResetPage(s2, g.frame_id, page_id, 1)
                        s4 == DiskCall(s3, "ReadPage", page_id)
                    IN  [s |-> [s4 EXCEPT !.replacer = Pin(@, g.frame_id)],
                         page |-> g.frame_id, victim |-> g.victim]

FetchPageImpl(s, page_id) ==
  IF s.page_table[page_id] # NoFrame
    THEN LET f  == s.page_table[page_id]
             s1 == [s EXCEPT !.pages[f].pin_count = @ + 1]
         IN  [s |-> [s1 EXCEPT !.replacer = Pin(@, f)],
              page |-> f, victim |-> NoFrame]
    ELSE LET g == GetNextAvailableFrame(s)
         IN  IF g.frame_id = NoFrame
               THEN [s |-> g.s, page |-> NoFrame, victim |-> g.victim]
               ELSE LET s1 == MaybeEvictPageFromFrame(g.s, g.frame_id)
                        s2 == [s1 EXCEPT !.page_table[page_id] = g.frame_id]
                        s3 == ResetPage(s2, g.frame_id, page_id, 1)
                        s4 == DiskCall(s3, "ReadPage", page_id)
                    IN  [s |-> [s4 EXCEPT !.replacer = Pin(@, g.frame_id)],
                         page |-> g.frame_id, victim |-> g.victim]

UnpinPageImpl_NoPinCheck(s, page_id, is_dirty) ==
  IF s.page_table[page_id] = NoFrame
    THEN [s |-> s, ret |-> TRUE]
    ELSE LET f  == s.page_table[page_id]
             s1 == [s EXCEPT !.pages[f].pin_count = @ - 1,
                             !.pages[f].is_dirty = @ \/ is_dirty]
         IN  [s |-> IF s1.pages[f].pin_count = 0
                      THEN [s1 EXCEPT !.replacer = Unpin(@, f)]
                      ELSE s1,
              ret |-> TRUE]

UnpinPageImpl_DirtyAssigned(s, page_id, is_dirty) ==
  IF s.page_table[page_id] = NoFrame
    THEN [s |-> s, ret |-> TRUE]
    ELSE LET f == s.page_table[page_id]
         IN  IF s.pages[f].pin_count <= 0
               THEN [s |-> s, ret |-> FALSE]
               ELSE LET s1 == [s EXCEPT !.pages[f].pin_count = @ - 1,
                                        !.pages[f].is_dirty = is_dirty]
                    IN  [s |-> IF s1.pages[f].pin_count = 0
                                 THEN [s1 EXCEPT !.replacer = Unpin(@, f)]
                                 ELSE s1,
                         ret |-> TRUE]

UnpinPageImpl(s, page_id, is_dirty) ==
  IF s.page_table[page_id] = NoFrame
    THEN [s |-> s, ret |-> TRUE]
    ELSE LET f == s.page_table[page_id]
         IN  IF s.pages[f].pin_count <= 0
               THEN [s |-> s, ret |-> FALSE]
               ELSE LET s1 == [s EXCEPT !.pages[f].pin_count = @ - 1,
                                        !.pages[f].is_dirty = @ \/ is_dirty]
                    IN  [s |-> IF s1.pages[f].pin_count = 0
                                 THEN [s1 EXCEPT !.replacer = Unpin(@, f)]
                                 ELSE s1,
                         ret |-> TRUE]

FlushPageImpl(s, page_id) == FlushPageLocked(s, page_id)

NewPageImpl(s, new_page_id) ==
  LET s0 == DiskCall(s, "AllocatePage", new_page_id)
      g  == GetNextAvailableFrame(s0)
  IN  IF g.frame_id = NoFrame
        THEN [s |-> g.s, page |-> NoFrame, victim |-> g.victim]
        ELSE LET s1 == MaybeEvictPageFromFrame(g.s, g.frame_id)
                 s2 == ResetPage(s1, g.frame_id, new_page_id, 1)
             IN  [s |-> [s2 EXCEPT !.page_table[new_page_id] = g.frame_id],
                  page |-> g.frame_id, victim |-> g.victim]

DeletePageImpl_KeepsEntry(s, page_id) ==
  LET s0 == DiskCall(s, "DeallocatePage", page_id)
  IN  IF s0.page_table[page_id] = NoFrame
        THEN [s |-> s0, ret |-> TRUE]
        ELSE LET f == s0.page_table[page_id]
             IN  IF s0.pages[f].pin_count # 0
                   THEN [s |-> s0, ret |-> FALSE]
                   ELSE LET s1 == [s0 EXCEPT !.free_list = Append(@, f)]
                        IN  [s |-> ResetPage(s1, f, INVALID_PAGE_ID,
                                             DefaultPinCount),
                             ret |-> FALSE]

DeletePageImpl(s, page_id) ==
  LET s0 == DiskCall(s, "DeallocatePage", page_id)
  IN  IF s0.page_table[page_id] = NoFrame
        THEN [s |-> s0, ret |-> TRUE]
        ELSE LET f == s0.page_table[page_id]
             IN  IF s0.pages[f].pin_count # 0
                   THEN [s |-> s0, ret |-> FALSE]
                   ELSE LET s1 == [s0 EXCEPT !.free_list = Append(@, f)]
                            s2 == [s1 EXCEPT !.page_table[page_id] = NoFrame]
                        IN  [s |-> ResetPage(s2, f, INVALID_PAGE_ID,
                                             DefaultPinCount),
                             ret |-> FALSE]

RECURSIVE FlushAllPagesImpl(_, _)
FlushAllPagesImpl(s, order) ==
  IF order = << >>
    THEN s
    ELSE FlushAllPagesImpl(FlushPageLocked(s, Head(order)).s, Tail(order))

Resident(pt) == {p \in PageIds : pt[p] # NoFrame}

IterationOrders(S) ==
  {o \in [1 .. Cardinality(S) -> S] : \A i, j \in DOMAIN o : i # j => o[i] # o[j]}

----------------------------------------------------------------------------
(* History of the most recent call: its name, arguments and results        *)
(* (last), and the progress of one observed run of FetchPage calls         *)
(* followed by UnpinPage calls on a single page (bal).                     *)

Call(op, page_id, is_dirty, ok, frame, victim) ==
  [op |-> op, page_id |-> page_id, is_dirty |-> is_dirty, ok |-> ok,
   frame |-> frame, victim |-> victim]

BalIdle == [phase |-> "idle", page |-> INVALID_PAGE_ID, n |-> 0, k |-> 0,
            ok |-> TRUE]

BalBase == IF bal.phase = "done" THEN BalIdle ELSE bal

BalDrop(p) == IF BalBase.page = p THEN BalIdle ELSE BalBase

BalFetch(p, page) ==
  IF page = NoFrame
    THEN {BalDrop(p)}
    ELSE LET cont   == IF BalBase.page = p /\ BalBase.phase = "fetch"
                         THEN [BalBase EXCEPT !.n = @ + 1]
                         ELSE BalDrop(p)
             starts == \/ page_table[p] = NoFrame
                       \/ pages[page_table[p]].pin_count = 0
         IN  {cont} \cup
             (IF starts
                THEN {[phase |-> "fetch", page |-> p, n |-> 1, k |-> 0,
                       ok |-> TRUE]}
                ELSE {})

BalUnpin(p, ret) ==
  IF BalBase.page = p /\ BalBase.phase \in {"fetch", "unpin"}
    THEN [BalBase EXCEPT !.k = @ + 1,
                         !.ok = @ /\ ret,
                         !.phase = IF BalBase.k + 1 = BalBase.n
                                     THEN "done" ELSE "unpin"]
    ELSE BalBase

Install(s) ==
  /\ page_table' = s.page_table
  /\ pages' = s.pages
  /\ free_list' = s.free_list
  /\ replacer' = s.replacer

(* Latches and threads.  latch is the owner of the manager's latch_,       *)
(* replacer_latch the writer and the readers of the replacer's shared      *)
(* latch_, page_latch the same for the reader-writer latch of each frame.  *)
(* A thread is idle, blocked on a latch, or running under it; todo is the  *)
(* rest of the latch calls of the operation it is in.                      *)
Unlatched == [writer |-> NoThread, readers |-> {}]

ThreadIdle == [pc |-> "idle", page_id |-> INVALID_PAGE_ID, todo |-> << >>]

AllIdle == \A t \in Threads : thread[t].pc = "idle"

(* Observation of two overlapping FetchPage(p) calls on a page that is not *)
(* resident while a frame is available and no third thread is in a call:   *)
(* the ReadPage(p) calls issued and the frames returned.  Any further call *)
(* ends the observation.                                                   *)
DupIdle == [phase |-> "idle", page |-> INVALID_PAGE_ID, reads |-> 0,
            frames |-> << >>]

DupStart(page_id) == [phase |-> "racing", page |-> page_id, reads |-> 0,
                      frames |-> << >>]

DupReturn(d, disk_calls, page) ==
  IF d.phase # "racing"
    THEN d
    ELSE [phase  |-> IF Len(d.frames) = 1 THEN "done" ELSE "racing",
          page   |-> d.page,
          reads  |-> d.reads
                     + Cardinality({i \in 1 .. Len(disk_calls) :
                                      disk_calls[i] = <<"ReadPage", d.page>>}),
          frames |-> Append(d.frames, page)]

(* What an operation adds to the history: h = "calls" records the call and *)
(* its disk manager calls, h = "balance" follows the observed run of       *)
(* FetchPage / UnpinPage calls, h = "race" is an operation that runs while *)
(* no thread is inside a FetchPage call, h = "none" keeps no history.      *)
Record(h, call, disk_calls, bals) ==
  /\ IF h = "calls"
       THEN last' = call /\ io' = disk_calls
       ELSE UNCHANGED <<last, io>>
  /\ IF h = "balance"
       THEN bal' \in bals
       ELSE UNCHANGED bal
  /\ IF h = "race"
       THEN AllIdle /\ latch = NoThread /\ dup' = DupIdle
       ELSE UNCHANGED dup
  /\ UNCHANGED <<latch, replacer_latch, page_latch, thread>>

----------------------------------------------------------------------------
(* The public operations.  Callers pass page ids of PageIds, never         *)
(* INVALID_PAGE_ID, and DiskManager::AllocatePage issues a page id that is *)
(* not resident.                                                           *)

AllocatePage(pt) == PageIds \ Resident(pt)

Init ==
  /\ page_table = [p \in PageIds |-> NoFrame]
  /\ pages = [f \in FrameIds |-> Page]
  /\ free_list = [i \in 1 .. PoolSize |-> i - 1]
  /\ replacer = ClockReplacer(PoolSize)
  /\ io = << >>
  /\ last = Call("BufferPoolManager", INVALID_PAGE_ID, FALSE, TRUE, NoFrame,
                 NoFrame)
  /\ bal = BalIdle
  /\ latch = NoThread
  /\ replacer_latch = Unlatched
  /\ page_latch = [f \in FrameIds |-> Unlatched]
  /\ thread = [t \in Threads |-> ThreadIdle]
  /\ dup = DupIdle

FetchPage(page_id, h) ==
  /\ page_table[page_id] # NoFrame
       => pages[page_table[page_id]].pin_count < MaxPin
  /\ LET r == FetchPageImpl(Cur, page_id)
     IN  /\ Install(r.s)
         /\ Record(h, Call("FetchPage", page_id, FALSE, r.page # NoFrame,
                           r.page, r.victim),
                   r.s.io, BalFetch(page_id, r.page))

UnpinPage(page_id, is_dirty, h) ==
  LET r == UnpinPageImpl(Cur, page_id, is_dirty)
  IN  /\ Install(r.s)
      /\ Record(h, Call("UnpinPage", page_id, is_dirty, r.ret, NoFrame,
                        NoFrame),
                r.s.io, {BalUnpin(page_id, r.ret)})

FlushPage(page_id, h) ==
  LET r == FlushPageImpl(Cur, page_id)
  IN  /\ Install(r.s)
      /\ Record(h, Call("FlushPage", page_id, FALSE, r.ret, NoFrame, NoFrame),
                r.s.io, {BalBase})

NewPage(new_page_id, h) ==
  /\ new_page_id \in AllocatePage(page_table)
  /\ LET r == NewPageImpl(Cur, new_page_id)
     IN  /\ Install(r.s)
         /\ Record(h, Call("NewPage", new_page_id, FALSE, r.page # NoFrame,
                           r.page, r.victim),
                   r.s.io, {BalDrop(new_page_id)})

DeletePage(page_id, h) ==
  LET r == DeletePageImpl(Cur, page_id)
  IN  /\ Install(r.s)
      /\ Record(h, Call("DeletePage", page_id, FALSE, r.ret, NoFrame, NoFrame),
                r.s.io, {BalDrop(page_id)})

FlushAllPages(h) ==
  \E order \in IterationOrders(Resident(page_table)) :
    LET s == FlushAllPagesImpl(Cur, order)
    IN  /\ Install(s)
        /\ Record(h, Call("FlushAllPages", INVALID_PAGE_ID, FALSE, TRUE,
                          NoFrame, NoFrame),
                  s.io, {BalBase})

Operation(h) ==
  \/ \E page_id \in PageIds : FetchPage(page_id, h)
  \/ \E page_id \in PageIds, is_dirty \in BOOLEAN :
       UnpinPage(page_id, is_dirty, h)
  \/ \E page_id \in PageIds : FlushPage(page_id, h)
  \/ \E new_page_id \in PageIds : NewPage(new_page_id, h)
  \/ \E page_id \in PageIds : DeletePage(page_id, h)
  \/ FlushAllPages(h)

(* The manager alone: page_table_, pages_, free_list_ and the replacer. *)
Next == Operation("none")

Spec == Init /\ [][Next]_vars

(* The manager with the history of its most recent call. *)
NextCalls == Operation("calls")

SpecCalls == Init /\ [][NextCalls]_vars

(* The manager with the observed FetchPage / UnpinPage run. *)
NextBalance == Operation("balance")

SpecBalance == Init /\ [][NextBalance]_vars

----------------------------------------------------------------------------
(* The ClockReplacer on its own: a replacer constructed for ReplacerFrames *)
(* frames and called through its public Victim, Pin and Unpin, each of     *)
(* which holds the replacer's latch_ from entry to return.  last records   *)
(* the most recent call: frame is the argument of Pin and Unpin and the    *)
(* value left in *frame_id by Victim.                                      *)

ReplacerFrameIds == 0 .. (ReplacerFrames - 1)

InitReplacer ==
  /\ page_table = [p \in PageIds |-> NoFrame]
  /\ pages = [f \in FrameIds |-> Page]
  /\ free_list = << >>
  /\ replacer = ClockReplacer(ReplacerFrames)
  /\ io = << >>
  /\ last = Call("ClockReplacer", INVALID_PAGE_ID, FALSE, TRUE, NoFrame,
                 NoFrame)
  /\ bal = BalIdle
  /\ latch = NoThread
  /\ replacer_latch = Unlatched
  /\ page_latch = [f \in FrameIds |-> Unlatched]
  /\ thread = [t \in Threads |-> ThreadIdle]
  /\ dup = DupIdle

ClockReplacerVictim ==
  LET v == Victim(replacer, NoFrame)
  IN  /\ replacer' = v.r
      /\ last' = Call("Victim", INVALID_PAGE_ID, FALSE, v.ok, v.frame_id,
                      NoFrame)
      /\ UNCHANGED <<page_table, pages, free_list, io, bal, latch, replacer_latch,
                  page_latch, thread, dup>>

ClockReplacerPin(frame_id) ==
  /\ replacer' = Pin(replacer, frame_id)
  /\ last' = Call("Pin", INVALID_PAGE_ID, FALSE, TRUE, frame_id, NoFrame)
  /\ UNCHANGED <<page_table, pages, free_list, io, bal, latch, replacer_latch,
                  page_latch, thread, dup>>

ClockReplacerUnpin(frame_id) ==
  /\ replacer' = Unpin(replacer, frame_id)
  /\ last' = Call("Unpin", INVALID_PAGE_ID, FALSE, TRUE, frame_id, NoFrame)
  /\ UNCHANGED <<page_table, pages, free_list, io, bal, latch, replacer_latch,
                  page_latch, thread, dup>>

NextReplacer ==
  \/ ClockReplacerVictim
  \/ \E frame_id \in ReplacerFrameIds : ClockReplacerPin(frame_id)
  \/ \E frame_id \in ReplacerFrameIds : ClockReplacerUnpin(frame_id)

SpecReplacer == InitReplacer /\ [][NextReplacer]_vars

----------------------------------------------------------------------------
(* Threads inside FetchPage.  A call blocks at the unique_lock of latch_   *)
(* (line 52), takes the latch when it is free, runs lines 54-97 under it   *)
(* and releases it on return.  The other operations run between the calls, *)
(* while no thread is inside FetchPage.                                    *)

FrameAvailable == free_list # << >> \/ Size(replacer) > 0

FetchPageCall(t, page_id) ==
  /\ thread[t].pc = "idle"
  /\ thread' = [thread EXCEPT ![t] = [pc |-> "blocked", page_id |-> page_id,
                                      todo |-> << >>]]
  /\ dup' = IF /\ \E u \in Threads \ {t} :
                     /\ thread[u].pc \in {"blocked", "running"}
                     /\ thread[u].page_id = page_id
                     /\ \A w \in Threads \ {t, u} : thread[w].pc = "idle"
                /\ page_table[page_id] = NoFrame
                /\ FrameAvailable
               THEN DupStart(page_id)
               ELSE DupIdle
  /\ UNCHANGED <<page_table, pages, free_list, replacer, io, last, bal>>
  /\ UNCHANGED <<latch, replacer_latch, page_latch>>

FetchPageLock(t) ==
  /\ thread[t].pc = "blocked"
  /\ latch = NoThread
  /\ page_table[thread[t].page_id] # NoFrame
       => pages[page_table[thread[t].page_id]].pin_count < MaxPin
  /\ latch' = t
  /\ thread' = [thread EXCEPT ![t].pc = "running"]
  /\ UNCHANGED <<page_table, pages, free_list, replacer, io, last, bal>>
  /\ UNCHANGED <<replacer_latch, page_latch, dup>>

FetchPageReturn(t) ==
  /\ thread[t].pc = "running"
  /\ latch = t
  /\ LET r == FetchPageImpl(Cur, thread[t].page_id)
     IN  /\ Install(r.s)
         /\ dup' = DupReturn(dup, r.s.io, r.page)
  /\ latch' = NoThread
  /\ thread' = [thread EXCEPT ![t] = ThreadIdle]
  /\ UNCHANGED <<io, last, bal, replacer_latch, page_latch>>

NextRace ==
  \/ Operation("race")
  \/ \E t \in Threads, page_id \in PageIds : FetchPageCall(t, page_id)
  \/ \E t \in Threads : FetchPageLock(t)
  \/ \E t \in Threads : FetchPageReturn(t)

SpecRace == Init /\ [][NextRace]_vars

----------------------------------------------------------------------------
(* Latching.  An operation is the sequence of latch calls its code makes,  *)
(* in program order.  Which calls it makes depends on the manager's data   *)
(* only through the branches taken, so every branch condition is an input  *)
(* (b) and so is the frame (f): every path through the code is covered.    *)
(* A thread blocked at the unique_lock of latch_ takes it when it is free  *)
(* and then works through the latch calls of the operation (todo); lock    *)
(* and lock_shared wait until the latch can be granted.                    *)

LatchCall(call, kind, frame) == [call |-> call, kind |-> kind, frame |-> frame]

Branches == [found : BOOLEAN, free : BOOLEAN, victim : BOOLEAN,
             holds_page : BOOLEAN, is_dirty : BOOLEAN, pinned : BOOLEAN,
             last_pin : BOOLEAN]

WLatch(f) == <<LatchCall("lock", "page", f), LatchCall("unlock", "page", f)>>

RLatch(f) == <<LatchCall("lock_shared", "page", f),
               LatchCall("unlock_shared", "page", f)>>

ReplacerLatches == <<LatchCall("lock", "replacer", NoFrame),
                     LatchCall("unlock", "replacer", NoFrame)>>

SizeLatches == <<LatchCall("lock_shared", "replacer", NoFrame),
                 LatchCall("unlock_shared", "replacer", NoFrame)>>

ResetPageLatches(f) == WLatch(f)

FlushPageLockedLatches(f, found, is_dirty) ==
  IF ~ found
    THEN << >>
    ELSE RLatch(f) \o (IF is_dirty THEN WLatch(f) ELSE << >>)

GetNextAvailableFrameLatches(b) ==
  IF b.free THEN << >> ELSE ReplacerLatches

MaybeEvictPageFromFrameLatches(f, b) ==
  IF b.holds_page
    THEN FlushPageLockedLatches(f, b.found, b.is_dirty)
    ELSE << >>

FetchPageImplLatches(f, b) ==
  IF b.found
    THEN WLatch(f) \o ReplacerLatches
    ELSE GetNextAvailableFrameLatches(b)
         \o (IF ~ b.free /\ ~ b.victim
               THEN << >>
               ELSE MaybeEvictPageFromFrameLatches(f, b)
                    \o ResetPageLatches(f)
                    \o WLatch(f)
                    \o ReplacerLatches)

UnpinPageImplLatches_UnpinUnderWLatch(f, b) ==
  IF ~ b.found
    THEN << >>
    ELSE RLatch(f)
         \o (IF ~ b.pinned
               THEN << >>
               ELSE IF b.last_pin
                      THEN <<LatchCall("lock", "page", f)>>
                           \o ReplacerLatches
                           \o <<LatchCall("unlock", "page", f)>>
                      ELSE WLatch(f))

UnpinPageImplLatches(f, b) ==
  IF ~ b.found
    THEN << >>
    ELSE RLatch(f)
         \o (IF ~ b.pinned
               THEN << >>
               ELSE WLatch(f)
                    \o (IF b.last_pin THEN ReplacerLatches ELSE << >>))

FlushPageImplLatches(f, b) == FlushPageLockedLatches(f, b.found, b.is_dirty)

NewPageImplLatches(f, b) ==
  GetNextAvailableFrameLatches(b)
  \o (IF ~ b.free /\ ~ b.victim
        THEN << >>
        ELSE MaybeEvictPageFromFrameLatches(f, b) \o ResetPageLatches(f))

DeletePageImplLatches(f, b) ==
  IF ~ b.found
    THEN << >>
    ELSE RLatch(f) \o (IF b.pinned THEN << >> ELSE ResetPageLatches(f))

RECURSIVE FlushAllPagesImplLatches(_, _)
FlushAllPagesImplLatches(order, dirty) ==
  IF order = << >>
    THEN << >>
    ELSE FlushPageLockedLatches(Head(order), TRUE, dirty[Head(order)])
         \o FlushAllPagesImplLatches(Tail(order), dirty)

LatchState(c) ==
  IF c.kind = "manager" THEN [writer |-> latch, readers |-> {}]
  ELSE IF c.kind = "replacer" THEN replacer_latch
  ELSE page_latch[c.frame]

SetLatch(c, v) ==
  /\ latch' = IF c.kind = "manager" THEN v.writer ELSE latch
  /\ replacer_latch' = IF c.kind = "replacer" THEN v ELSE replacer_latch
  /\ page_latch' = IF c.kind = "page"
                     THEN [page_latch EXCEPT ![c.frame] = v]
                     ELSE page_latch

Done(t) ==
  /\ thread' = [thread EXCEPT ![t] = IF Len(thread[t].todo) = 1
                                       THEN ThreadIdle
                                       ELSE [thread[t] EXCEPT !.todo = Tail(@)]]
  /\ UNCHANGED <<page_table, pages, free_list, replacer, io, last, bal, dup>>

(* A call of a public BufferPoolManager operation: blocked at latch_. *)
OperationCall(t) ==
  /\ thread[t].pc = "idle"
  /\ thread' = [thread EXCEPT ![t].pc = "blocked"]
  /\ UNCHANGED <<page_table, pages, free_list, replacer, io, last, bal, dup>>
  /\ UNCHANGED <<latch, replacer_latch, page_latch>>

(* unique_lock<mutex> scoped_lock(latch_) granted; released on return. *)
Latched(t, calls) ==
  /\ thread[t].pc = "blocked"
  /\ latch = NoThread
  /\ latch' = t
  /\ thread' = [thread EXCEPT ![t] =
                  [pc |-> "running", page_id |-> INVALID_PAGE_ID,
                   todo |-> calls \o <<LatchCall("unlock", "manager", NoFrame)>>]]
  /\ UNCHANGED <<page_table, pages, free_list, replacer, io, last, bal, dup>>
  /\ UNCHANGED <<replacer_latch, page_latch>>

FetchPageLatched(t, f, b) == Latched(t, FetchPageImplLatches(f, b))

UnpinPageLatched(t, f, b) == Latched(t, UnpinPageImplLatches(f, b))

FlushPageLatched(t, f, b) == Latched(t, FlushPageImplLatches(f, b))

NewPageLatched(t, f, b) == Latched(t, NewPageImplLatches(f, b))

DeletePageLatched(t, f, b) == Latched(t, DeletePageImplLatches(f, b))

FlushAllPagesLatched(t, order, dirty) ==
  Latched(t, FlushAllPagesImplLatches(order, dirty))

(* ClockReplacer::Size() called on its own. *)
SizeCall(t) ==
  /\ thread[t].pc = "idle"
  /\ thread' = [thread EXCEPT ![t] =
                  [pc |-> "running", page_id |-> INVALID_PAGE_ID,
                   todo |-> SizeLatches]]
  /\ UNCHANGED <<page_table, pages, free_list, replacer, io, last, bal, dup>>
  /\ UNCHANGED <<latch, replacer_latch, page_latch>>

(* The caller of FetchPage / NewPage latches the page it got, outside any  *)
(* call of the manager.                                                    *)
CallerLatch(t, f, shared) ==
  /\ thread[t].pc = "idle"
  /\ thread' = [thread EXCEPT ![t] =
                  [pc |-> "running", page_id |-> INVALID_PAGE_ID,
                   todo |-> IF shared THEN RLatch(f) ELSE WLatch(f)]]
  /\ UNCHANGED <<page_table, pages, free_list, replacer, io, last, bal, dup>>
  /\ UNCHANGED <<latch, replacer_latch, page_latch>>

Lock(t) ==
  /\ thread[t].todo # << >>
  /\ LET c == Head(thread[t].todo)
     IN  /\ c.call = "lock"
         /\ LatchState(c) = Unlatched
         /\ SetLatch(c, [writer |-> t, readers |-> {}])
  /\ Done(t)

LockShared(t) ==
  /\ thread[t].todo # << >>
  /\ LET c == Head(thread[t].todo)
     IN  /\ c.call = "lock_shared"
         /\ LatchState(c).writer = NoThread
         /\ SetLatch(c, [LatchState(c) EXCEPT !.readers = @ \cup {t}])
  /\ Done(t)

Unlock(t) ==
  /\ thread[t].todo # << >>
  /\ LET c == Head(thread[t].todo)
     IN  /\ c.call = "unlock"
         /\ SetLatch(c, Unlatched)
  /\ Done(t)

UnlockShared(t) ==
  /\ thread[t].todo # << >>
  /\ LET c == Head(thread[t].todo)
     IN  /\ c.call = "unlock_shared"
         /\ SetLatch(c, [LatchState(c) EXCEPT !.readers = @ \ {t}])
  /\ Done(t)

FlushOrders == UNION {IterationOrders(S) : S \in SUBSET FrameIds}

NextLatches ==
  \/ \E t \in Threads : OperationCall(t)
  \/ \E t \in Threads, f \in FrameIds, b \in Branches :
       FetchPageLatched(t, f, b)
  \/ \E t \in Threads, f \in FrameIds, b \in Branches :
       UnpinPageLatched(t, f, b)
  \/ \E t \in Threads, f \in FrameIds, b \in Branches :
       FlushPageLatched(t, f, b)
  \/ \E t \in Threads, f \in FrameIds, b \in Branches :
       NewPageLatched(t, f, b)
  \/ \E t \in Threads, f \in FrameIds, b \in Branches :
       DeletePageLatched(t, f, b)
  \/ \E t \in Threads, order \in FlushOrders,
        dirty \in [FrameIds -> BOOLEAN] :
       FlushAllPagesLatched(t, order, dirty)
  \/ \E t \in Threads : SizeCall(t)
  \/ \E t \in Threads, f \in FrameIds, shared \in BOOLEAN :
       CallerLatch(t, f, shared)
  \/ \E t \in Threads : Lock(t)
  \/ \E t \in Threads : LockShared(t)
  \/ \E t \in Threads : Unlock(t)
  \/ \E t \in Threads : UnlockShared(t)

(* The grant of latch_ to thread t, whatever operation it called. *)
ManagerLock(t) ==
  \/ \E f \in FrameIds, b \in Branches :
       \/ FetchPageLatched(t, f, b)
       \/ UnpinPageLatched(t, f, b)
       \/ FlushPageLatched(t, f, b)
       \/ NewPageLatched(t, f, b)
       \/ DeletePageLatched(t, f, b)
  \/ \E order \in FlushOrders, dirty \in [FrameIds -> BOOLEAN] :
       FlushAllPagesLatched(t, order, dirty)

(* Fair scheduling: a thread that can release a latch does so, and a       *)
(* thread that can again and again be granted the latch it waits for is    *)
(* granted it.                                                             *)
FairScheduling ==
  \A t \in Threads :
    /\ WF_vars(Unlock(t))
    /\ WF_vars(UnlockShared(t))
    /\ SF_vars(Lock(t))
    /\ SF_vars(LockShared(t))
    /\ SF_vars(ManagerLock(t))

SpecLatches == Init /\ [][NextLatches]_vars /\ FairScheduling

----------------------------------------------------------------------------
(* Vocabulary of the properties *)

IsResident(p) == page_table[p] # NoFrame

ResidentFrames == {page_table[p] : p \in Resident(page_table)}

FreeFrames == {free_list[i] : i \in 1 .. Len(free_list)}

PinnedResidentFrames == {f \in ResidentFrames : pages[f].pin_count > 0}

AllFramesPinned ==
  \A f \in FrameIds : f \in ResidentFrames /\ pages[f].pin_count > 0

ManagerState == <<page_table, pages, free_list, replacer>>

FrameIdList(r) == [i \in 1 .. Len(r.frame_list) |-> r.frame_list[i].frame_id]

ReferenceBit(r, f) == r.frame_list[r.frame_map[f]].reference_bit

ReplacerWellFormed(r) ==
  /\ (r.clock_hand = End) <=> (r.frame_list = << >>)
  /\ r.frame_list # << >> => r.clock_hand \in 1 .. Len(r.frame_list)
  /\ \A i, j \in 1 .. Len(r.frame_list) :
       r.frame_list[i].frame_id = r.frame_list[j].frame_id => i = j
  /\ \A i \in 1 .. Len(r.frame_list) :
       /\ r.frame_list[i].frame_id \in DOMAIN r.frame_map
       /\ r.frame_map[r.frame_list[i].frame_id] = i
  /\ \A f \in DOMAIN r.frame_map : ~ Tracked(r, f) => r.frame_map[f] = End

HandFirstBitsSorted(r) ==
  /\ r.clock_hand # End => r.clock_hand = 1
  /\ \A i, j \in 1 .. Len(r.frame_list) :
       (i < j /\ r.frame_list[i].reference_bit)
         => r.frame_list[j].reference_bit

HoldsReplacerLatch(t) ==
  replacer_latch.writer = t \/ t \in replacer_latch.readers

HoldsPageLatch(t) ==
  \E f \in FrameIds : page_latch[f].writer = t \/ t \in page_latch[f].readers

Requests(t, kind) ==
  IF kind = "manager"
    THEN thread[t].pc = "blocked"
    ELSE /\ thread[t].todo # << >>
         /\ Head(thread[t].todo).call \in {"lock", "lock_shared"}
         /\ Head(thread[t].todo).kind = kind

CanStep(t) ==
  \/ thread[t].pc = "blocked" /\ latch = NoThread
  \/ /\ thread[t].todo # << >>
     /\ LET c == Head(thread[t].todo)
        IN  \/ c.call \in {"unlock", "unlock_shared"}
            \/ c.call = "lock" /\ LatchState(c) = Unlatched
            \/ c.call = "lock_shared" /\ LatchState(c).writer = NoThread

LatchOrder ==
  \A t \in Threads :
    /\ Requests(t, "manager") => ~ HoldsReplacerLatch(t) /\ ~ HoldsPageLatch(t)
    /\ Requests(t, "replacer") => ~ HoldsPageLatch(t)

NoDeadlock ==
  (\E t \in Threads : thread[t].pc # "idle")
    => \E t \in Threads : CanStep(t)

(* Positions of r.frame_list in circular order starting at the clock hand. *)
CircularOrder(r) ==
  [k \in 1 .. Len(r.frame_list) |->
     ((r.clock_hand - 1 + (k - 1)) % Len(r.frame_list)) + 1]

----------------------------------------------------------------------------
(* C1. Eviction safety: Victim never hands out a frame whose pin_count is  *)
(* above zero, so no FetchPage or NewPage removes a resident page with     *)
(* pin_count > 0 from the page table or overwrites its frame.              *)
C1_EvictionSafety ==
  [][/\ last'.victim # NoFrame => pages[last'.victim].pin_count = 0
     /\ \A p \in PageIds :
          (/\ last'.op \in {"FetchPage", "NewPage"}
           /\ IsResident(p)
           /\ pages[page_table[p]].pin_count > 0)
          => /\ page_table'[p] = page_table[p]
             /\ pages'[page_table[p]].page_id = p]_vars

(* C2. After every operation a frame is tracked by the replacer if and     *)
(* only if it is the value of a page-table entry and its pin_count is 0.   *)
C2_TrackedIffEvictable ==
  \A f \in FrameIds :
    Tracked(replacer, f) <=> (f \in ResidentFrames /\ pages[f].pin_count = 0)

(* C3. After every operation Size() of the replacer, the number of         *)
(* resident frames with pin_count > 0 and the length of the free list add  *)
(* up to pool_size.                                                        *)
C3_FramePartition ==
  Size(replacer) + Cardinality(PinnedResidentFrames) + Len(free_list)
    = PoolSize

(* C4. With valid page ids and AllocatePage issuing non-resident ids, the  *)
(* length of the free list plus the number of page-table entries is        *)
(* pool_size after every operation, successful or failing.                 *)
C4_FreePlusTable ==
  Len(free_list) + Cardinality(Resident(page_table)) = PoolSize

C4_Witness ==
  /\ free_list = << >>
  /\ Cardinality(Resident(page_table)) = PoolSize
  /\ \E f \in ResidentFrames : Tracked(replacer, f) /\ pages[f].pin_count > 0

(* C5. With valid page ids and AllocatePage issuing non-resident ids,      *)
(* every page-table entry p -> f has pages[f].page_id = p with p not       *)
(* INVALID_PAGE_ID, no two entries share a frame, and no frame of the free *)
(* list is the value of an entry.                                          *)
C5_PageTableConsistent ==
  /\ \A p \in Resident(page_table) :
       pages[page_table[p]].page_id = p /\ p # INVALID_PAGE_ID
  /\ \A p, q \in Resident(page_table) :
       page_table[p] = page_table[q] => p = q
  /\ FreeFrames \cap ResidentFrames = {}

C5_Witness ==
  /\ Resident(page_table) # {}
  /\ \E f \in FreeFrames : Tracked(replacer, f)
  /\ \E f \in ResidentFrames : Tracked(replacer, f) /\ pages[f].pin_count > 0

(* C6. DeletePage(p) returns false exactly when p is resident with         *)
(* pin_count > 0; it returns true when p is not resident and when p is     *)
(* resident with pin_count 0 and is deleted.                               *)
C6_DeleteReturn ==
  [][last'.op = "DeletePage"
       => (last'.ok = FALSE
             <=> (/\ IsResident(last'.page_id)
                  /\ pages[page_table[last'.page_id]].pin_count > 0))]_vars

(* C7. Capacity exhaustion: when every frame holds a resident page with    *)
(* pin_count > 0, FetchPage of a non-resident page and NewPage return null *)
(* and leave the page table, the free list, every frame's metadata and the *)
(* replacer unchanged.                                                     *)
C7_CapacityExhaustion ==
  [][(/\ AllFramesPinned
      /\ \/ last'.op = "NewPage"
         \/ last'.op = "FetchPage" /\ ~ IsResident(last'.page_id))
       => (~ last'.ok /\ UNCHANGED ManagerState)]_vars

(* C8. UnpinPage on a resident page whose pin_count is 0 and DeletePage on *)
(* a resident page whose pin_count is > 0 return false and leave the page  *)
(* table, the free list, every frame's metadata and the replacer           *)
(* unchanged; no pin_count is ever negative.                               *)
C8_ContractViolations ==
  [][/\ (/\ last'.op = "UnpinPage"
         /\ IsResident(last'.page_id)
         /\ pages[page_table[last'.page_id]].pin_count = 0)
          => (~ last'.ok /\ UNCHANGED ManagerState)
     /\ (/\ last'.op = "DeletePage"
         /\ IsResident(last'.page_id)
         /\ pages[page_table[last'.page_id]].pin_count > 0)
          => (~ last'.ok /\ UNCHANGED ManagerState)
     /\ \A f \in FrameIds : pages'[f].pin_count >= 0]_vars

C8_Witness ==
  /\ last.op = "UnpinPage"
  /\ ~ last.ok
  /\ IsResident(last.page_id)
  /\ pages[page_table[last.page_id]].pin_count = 0
  /\ Tracked(replacer, page_table[last.page_id])

(* C9. Pin/Unpin balance: starting from p absent or with pin_count 0, n    *)
(* successful FetchPage(p) calls followed by n UnpinPage(p, _) calls all   *)
(* succeed and leave p resident with pin_count 0 and its frame tracked by  *)
(* the replacer; after k < n of the unpins the frame has pin_count n - k   *)
(* and is not tracked.                                                     *)
C9_PinUnpinBalance ==
  /\ bal.phase \in {"fetch", "unpin"}
       => /\ bal.ok
          /\ IsResident(bal.page)
          /\ pages[page_table[bal.page]].pin_count = bal.n - bal.k
          /\ ~ Tracked(replacer, page_table[bal.page])
  /\ bal.phase = "done"
       => /\ bal.ok
          /\ IsResident(bal.page)
          /\ pages[page_table[bal.page]].pin_count = 0
          /\ Tracked(replacer, page_table[bal.page])

C9_Witness ==
  /\ bal.phase = "done"
  /\ bal.n = MaxPin
  /\ bal.k = bal.n

(* C10. Dirty stickiness: a set dirty bit of a resident page p stays set   *)
(* across FetchPage(p) hits and UnpinPage(p, false) calls and is cleared   *)
(* only by a flush of p (FlushPage, FlushAllPages), the eviction of p or   *)
(* the deletion of p.                                                      *)
C10_DirtySticky ==
  [][\A p \in PageIds :
       (IsResident(p) /\ pages[page_table[p]].is_dirty)
         => \/ page_table'[p] # NoFrame /\ pages'[page_table'[p]].is_dirty
            \/ last'.op = "FlushPage" /\ last'.page_id = p
            \/ last'.op = "FlushAllPages"
            \/ last'.op = "DeletePage" /\ last'.page_id = p
            \/ /\ last'.op \in {"FetchPage", "NewPage"}
               /\ last'.page_id # p
               /\ page_table'[p] = NoFrame]_vars

C10_Witness ==
  /\ last.op = "UnpinPage"
  /\ last.ok
  /\ ~ last.is_dirty
  /\ IsResident(last.page_id)
  /\ pages[page_table[last.page_id]].is_dirty

(* C11. Write-back before reuse: when FetchPage or NewPage reuses a frame   *)
(* that holds a resident page q, a dirty q gets exactly one WritePage(q),  *)
(* issued while q is still in the page table and before the ReadPage of    *)
(* the new page; a clean q gets no WritePage; q's entry is removed and the *)
(* returned frame has is_dirty = false and pin_count = 1.                  *)
C11_WriteBackBeforeReuse ==
  [][\A q \in PageIds :
       (/\ last'.op \in {"FetchPage", "NewPage"}
        /\ last'.ok
        /\ q # last'.page_id
        /\ page_table[last'.page_id] = NoFrame
        /\ page_table[q] = last'.frame
        /\ pages[last'.frame].page_id = q)
         => /\ io' = (IF last'.op = "NewPage"
                        THEN <<<<"AllocatePage", last'.page_id>>>>
                        ELSE << >>)
                     \o (IF pages[last'.frame].is_dirty
                           THEN <<<<"WritePage", q>>>>
                           ELSE << >>)
                     \o (IF last'.op = "FetchPage"
                           THEN <<<<"ReadPage", last'.page_id>>>>
                           ELSE << >>)
            /\ page_table'[q] = NoFrame
            /\ page_table'[last'.page_id] = last'.frame
            /\ pages'[last'.frame] = [page_id   |-> last'.page_id,
                                      pin_count |-> 1,
                                      is_dirty  |-> FALSE]]_vars

C11_Witness ==
  /\ last.op = "FetchPage"
  /\ last.victim # NoFrame
  /\ Len(io) = 2
  /\ io[1][1] = "WritePage"
  /\ io[2] = <<"ReadPage", last.page_id>>

(* C12. FlushPage(p) returns false exactly when p is not resident; for a   *)
(* resident p it issues one WritePage(p) exactly when the frame is dirty   *)
(* and leaves it clean; it never changes the page table, the free list, a  *)
(* pin_count or the replacer; two consecutive FlushPage(p) calls issue at  *)
(* most one disk write.                                                    *)
C12_FlushPage ==
  [][last'.op = "FlushPage"
       => LET p == last'.page_id
          IN  /\ last'.ok <=> IsResident(p)
              /\ IF IsResident(p)
                   THEN /\ io' = (IF pages[page_table[p]].is_dirty
                                    THEN <<<<"WritePage", p>>>>
                                    ELSE << >>)
                        /\ ~ pages'[page_table[p]].is_dirty
                   ELSE io' = << >>
              /\ UNCHANGED <<page_table, free_list, replacer>>
              /\ \A f \in FrameIds :
                   /\ pages'[f].pin_count = pages[f].pin_count
                   /\ pages'[f].page_id = pages[f].page_id
                   /\ f # page_table[p] => pages'[f] = pages[f]
              /\ (last.op = "FlushPage" /\ last.page_id = p)
                   => Len(io) + Len(io') <= 1]_vars

C12_Witness ==
  /\ last.op = "FlushPage"
  /\ last.ok
  /\ io = <<<<"WritePage", last.page_id>>>>
  /\ pages[page_table[last.page_id]].pin_count > 0

(* C13. Concurrent duplicate fetches: when two threads are inside           *)
(* FetchPage(p) at the same time for a page p that was not resident while  *)
(* a frame was available, then once both calls have returned exactly one   *)
(* ReadPage(p) was issued, p has one page-table entry, both calls returned *)
(* the same frame, and that frame holds p with pin_count 2.                *)
C13_DuplicateFetches ==
  dup.phase = "done"
    => /\ dup.reads = 1
       /\ dup.frames[1] # NoFrame
       /\ dup.frames[1] = dup.frames[2]
       /\ page_table[dup.page] = dup.frames[1]
       /\ {f \in FrameIds : pages[f].page_id = dup.page} = {dup.frames[1]}
       /\ pages[dup.frames[1]].pin_count = 2

C13_Witness ==
  /\ dup.phase = "done"
  /\ dup.reads = 1
  /\ AllIdle
  /\ \E q \in PageIds : q # dup.page /\ IsResident(q)

(* C14. Replacer structure: the clock hand is end() exactly when the list  *)
(* is empty and otherwise is the position of a node of the list; every     *)
(* frame id occurs in at most one node; frame_map_ holds exactly the frame *)
(* ids of the list, each mapped to its own node; Victim on an empty        *)
(* replacer returns false and leaves the replacer unchanged.               *)
C14_SelectorInvariant ==
  [][/\ ReplacerWellFormed(replacer)
     /\ ReplacerWellFormed(replacer')
     /\ (last'.op = "Victim" /\ replacer.frame_list = << >>)
          => /\ ~ last'.ok
             /\ last'.frame = NoFrame
             /\ replacer' = replacer]_vars

C14_Witness ==
  /\ last.op = "Pin"
  /\ Len(replacer.frame_list) >= 2
  /\ replacer.clock_hand = 1
  /\ ~ replacer.frame_list[1].reference_bit
  /\ replacer.frame_list[Len(replacer.frame_list)].reference_bit

(* C15. Victim on a non-empty replacer terminates after clearing at most   *)
(* Size() reference bits and returns true with the frame id of the first   *)
(* node, in circular order from the clock hand, whose reference bit is     *)
(* false (the hand's own node when every bit is true); every node passed   *)
(* over has its bit cleared; the victim leaves the list and the index;     *)
(* Size() drops by exactly 1; the hand ends on the victim's circular       *)
(* successor, or on end() when the list became empty.                      *)
C15_Victim ==
  [][(last'.op = "Victim" /\ replacer.frame_list # << >>)
       => LET r      == replacer
              n      == Size(r)
              ord    == CircularOrder(r)
              clear  == {k \in 1 .. n : ~ r.frame_list[ord[k]].reference_bit}
              k0     == IF clear = {} THEN 1
                        ELSE CHOOSE k \in clear : \A m \in clear : k <= m
              passed == IF clear = {} THEN 1 .. n ELSE 1 .. (k0 - 1)
              v      == r.frame_list[ord[k0]].frame_id
              succ   == r.frame_list[ord[(k0 % n) + 1]].frame_id
              swept  == {i \in 1 .. n : /\ r.frame_list[i].reference_bit
                                        /\ ~ Sweep(r).frame_list[i].reference_bit}
          IN  /\ last'.ok
              /\ last'.frame = v
              /\ Cardinality(swept) = Cardinality(passed)
              /\ Cardinality(swept) <= Size(r)
              /\ \A k \in passed :
                   LET g == r.frame_list[ord[k]].frame_id
                   IN  g # v => Tracked(replacer', g) /\ ~ ReferenceBit(replacer', g)
              /\ ~ Tracked(replacer', v)
              /\ replacer'.frame_map[v] = End
              /\ Size(replacer') = Size(r) - 1
              /\ IF n = 1
                   THEN replacer'.clock_hand = End
                   ELSE /\ replacer'.clock_hand # End
                        /\ replacer'.frame_list[replacer'.clock_hand].frame_id
                             = succ]_vars

C15_Witness ==
  /\ last.op = "Victim"
  /\ last.ok
  /\ Size(replacer) >= 2
  /\ \A i \in 1 .. Size(replacer) : ~ replacer.frame_list[i].reference_bit

(* C16. Second chance: a node inserted by Unpin starts with reference_bit  *)
(* true, and Victim never returns a frame whose reference bit was true at  *)
(* the start of the call while another tracked frame had its bit false:    *)
(* a returned frame had its bit cleared by a sweep that passed over it.    *)
C16_SecondChance ==
  [][/\ (last'.op = "Unpin" /\ ~ Tracked(replacer, last'.frame))
          => /\ Tracked(replacer', last'.frame)
             /\ ReferenceBit(replacer', last'.frame)
     /\ (last'.op = "Victim" /\ last'.ok)
          => (ReferenceBit(replacer, last'.frame)
                => \A g \in ReplacerFrameIds :
                     Tracked(replacer, g) => ReferenceBit(replacer, g))]_vars

C16_Witness ==
  /\ last.op = "Victim"
  /\ last.ok
  /\ \E g \in ReplacerFrameIds :
       Tracked(replacer, g) /\ ReferenceBit(replacer, g)
  /\ \E g \in ReplacerFrameIds :
       Tracked(replacer, g) /\ ~ ReferenceBit(replacer, g)

(* C17. DeletePage(p) on a resident page with pin_count 0 removes p from   *)
(* the page table, resets the frame's metadata, appends the frame to the   *)
(* tail of the free list and removes the frame from the replacer, which no *)
(* longer tracks it afterwards.                                            *)
C17_DeleteResident ==
  [][(/\ last'.op = "DeletePage"
      /\ IsResident(last'.page_id)
      /\ pages[page_table[last'.page_id]].pin_count = 0)
       => LET f == page_table[last'.page_id]
          IN  /\ page_table'[last'.page_id] = NoFrame
              /\ pages'[f] = [page_id   |-> INVALID_PAGE_ID,
                              pin_count |-> 0,
                              is_dirty  |-> FALSE]
              /\ free_list' = Append(free_list, f)
              /\ ~ Tracked(replacer', f)]_vars

(* C18. Replacer idempotence: Unpin(f) of a tracked frame changes nothing   *)
(* (list order, clock hand and f's reference bit, cleared or not, stay),   *)
(* Pin(f) of an untracked frame changes nothing, and a second Unpin(f) or  *)
(* Pin(f) right after the first has no further effect.                     *)
C18_Idempotence ==
  [][/\ last'.op = "Unpin"
          => /\ Tracked(replacer, last'.frame) => replacer' = replacer
             /\ Unpin(replacer', last'.frame) = replacer'
     /\ last'.op = "Pin"
          => /\ ~ Tracked(replacer, last'.frame) => replacer' = replacer
             /\ Pin(replacer', last'.frame) = replacer']_vars

C18_Witness ==
  /\ last.op = "Unpin"
  /\ Tracked(replacer, last.frame)
  /\ ~ ReferenceBit(replacer, last.frame)
  /\ Size(replacer) >= 2

C20_FifoEquivalence ==
  [][LET q  == FrameIdList(replacer)
         q2 == FrameIdList(replacer')
         f  == last'.frame
     IN  /\ HandFirstBitsSorted(replacer)
         /\ HandFirstBitsSorted(replacer')
         /\ last'.op = "Unpin"
              => q2 = (IF \E i \in 1 .. Len(q) : q[i] = f
                         THEN q ELSE Append(q, f))
         /\ last'.op = "Pin"
              => q2 = SelectSeq(q, LAMBDA x : x # f)
         /\ last'.op = "Victim"
              => IF q = << >>
                   THEN ~ last'.ok /\ q2 = q
                   ELSE last'.ok /\ f = Head(q) /\ q2 = Tail(q)]_vars

C20_Witness ==
  /\ last.op = "Victim"
  /\ last.ok
  /\ Size(replacer) >= 3
  /\ ~ replacer.frame_list[1].reference_bit
  /\ replacer.frame_list[2].reference_bit

====
